---------------------------- MODULE Spec2Model ----------------------------
(***************************************************************************)
(* Model of the code-agent benchmark evaluator: the Code Extractor         *)
(* (BenchmarkOrchestrator._clean_code_submission), the test runner         *)
(* (TestRunner.run_tests: its temporary directory, its process and the     *)
(* parsing of the transcript), the scorer and the debug files              *)
(* (CodeGenerationEvaluator.evaluate), the loading of the tasks and the    *)
(* evaluation loop (BenchmarkOrchestrator.run_benchmark).                  *)
(*                                                                         *)
(* Text is modelled as a sequence of tokens.  A token stands for the        *)
(* characters between the quotes below; the concatenation of the tokens of  *)
(* a sequence is the Python string.                                        *)
(*    "FENCE"   the triple-backtick fence                                  *)
(*    "python"  the language tag the regular expression knows              *)
(*    "NL"      a newline,  "SP" a blank                                   *)
(*    "import ", "from ", "def "   a keyword and the blank after it        *)
(*    "import", "from", "def"      the keyword alone (what str.strip       *)
(*              leaves of the former at the end of a text)                 *)
(*    "x"       any other word (prose, an unknown language tag, code)      *)
(* Scores are exact rationals <<numerator, denominator>> in lowest terms.  *)
(***************************************************************************)
EXTENDS Integers, Sequences, FiniteSets, TLC

VARIABLES
    pc,            \* position of the modelled operation
    messenger,     \* which submission collaborator the orchestrator was built with
    tasks,         \* the task sequence of the run (task ids, in loader order)
    idx,           \* number of tasks of the run already finished
    reply,         \* value returned by messenger.talk_to_agent for the current task
    submission,    \* the extracted submission of the current task
    task_results,  \* run_benchmark's task_results list
    result,        \* the BenchmarkResult returned by run_benchmark, or None
    raised,        \* the exception that left run_benchmark, or None
    events,        \* history: what happened to each finished task of the run
    text,          \* extractor study: the input string
    cleaned,       \* extractor study: _clean_code_submission(text)
    recleaned,     \* extractor study: _clean_code_submission(cleaned)
    test_results,  \* scorer study: the dictionary run_tests returned
    eval_result,   \* scorer study: the dictionary evaluate returned
    call,          \* evaluate study: the submission and the environment of a call
    behaviour,     \* sandbox run: what the process of the current run_tests call does
    tmpdir,        \* sandbox run: the temporary directory of each task's run_tests call
    child,         \* sandbox run: the process subprocess.run started, per task
    descendant,    \* sandbox run: a process the submission started, per task
    subprocess_run,\* sandbox run: how subprocess.run ended in the current call
    outcome,       \* sandbox run: what the current run_tests call returns or raises
    request_config,\* task loading: the request configuration of the run
    all_tasks      \* task loading: the tasks of the selected source, in loader order

loopVars == <<messenger, tasks, idx, reply, submission, task_results, result,
              raised, events>>

extractVars == <<text, cleaned, recleaned>>

scorerVars == <<test_results, eval_result, call>>

sandboxVars == <<behaviour, tmpdir, child, descendant, subprocess_run, outcome>>

loadVars == <<request_config, all_tasks>>

vars == <<pc, loopVars, extractVars, scorerVars, sandboxVars, loadVars>>

None == "None"

(***************************************************************************)
(* Bounds of the model.                                                    *)
(***************************************************************************)
MaxLen == 6        \* longest input text of the extractor study, in tokens
MaxTasks == 2      \* longest task sequence of a run
MaxCount == 8      \* largest passed / failed count of the scorer study

(***************************************************************************)
(* Text helpers: str.strip, str.split("\n"), "\n".join, in, startswith.    *)
(***************************************************************************)
Min(S) == CHOOSE m \in S : \A n \in S : m <= n

Max(S) == CHOOSE m \in S : \A n \in S : m >= n

IsSpace(t) == t \in {"SP", "NL"}

Keywords == {"import", "from", "def"}

\* kw followed by one blank, as a single token
WithBlank(kw) ==
    CASE kw = "import" -> "import "
      [] kw = "from" -> "from "
      [] kw = "def" -> "def "

\* t.rstrip() for a single token
RStripToken(t) ==
    CASE t = "import " -> "import"
      [] t = "from " -> "from"
      [] t = "def " -> "def"
      [] OTHER -> t

\* s.strip()
Strip(s) ==
    LET keep == {i \in 1..Len(s) : ~IsSpace(s[i])}
    IN  IF keep = {} THEN <<>>
        ELSE LET lo == Min(keep)
                 hi == Max(keep)
             IN  SubSeq(s, lo, hi - 1) \o <<RStripToken(s[hi])>>

\* "kw " in s
ContainsKw(s, kw) ==
    \E i \in 1..Len(s) :
        \/ s[i] = WithBlank(kw)
        \/ s[i] = kw /\ i < Len(s) /\ s[i + 1] = "SP"

\* s.startswith("kw ")
StartsWithKw(s, kw) ==
    /\ Len(s) >= 1
    /\ \/ s[1] = WithBlank(kw)
       \/ s[1] = kw /\ Len(s) >= 2 /\ s[2] = "SP"

\* s.split("\n")
RECURSIVE Split(_)
Split(s) ==
    LET nls == {i \in 1..Len(s) : s[i] = "NL"}
    IN  IF nls = {} THEN <<s>>
        ELSE <<SubSeq(s, 1, Min(nls) - 1)>> \o Split(SubSeq(s, Min(nls) + 1, Len(s)))

\* "\n".join(lines)
RECURSIVE Join(_)
Join(lines) ==
    IF Len(lines) = 0 THEN <<>>
    ELSE IF Len(lines) = 1 THEN lines[1]
    ELSE lines[1] \o <<"NL">> \o Join(Tail(lines))

(***************************************************************************)
(* re.findall(<fence>(?:python)?\n?(.*?)<fence>, s, re.DOTALL): the bodies *)
(* the non-overlapping matches, left to right.  A match starts at a fence, *)
(* takes "python" and then one newline when they follow, and its body runs *)
(* to the next fence.                                                      *)
(***************************************************************************)
FencesFrom(s, i) == {k \in i..Len(s) : s[k] = "FENCE"}

BodyStart(s, j) ==
    LET a == IF j + 1 <= Len(s) /\ s[j + 1] = "python" THEN j + 2 ELSE j + 1
    IN  IF a <= Len(s) /\ s[a] = "NL" THEN a + 1 ELSE a

RECURSIVE FindAll(_, _)
FindAll(s, i) ==
    LET opening == FencesFrom(s, i)
    IN  IF opening = {} THEN <<>>
        ELSE LET b == BodyStart(s, Min(opening))
                 closing == FencesFrom(s, b)
             IN  IF closing = {} THEN <<>>
                 ELSE LET k == Min(closing)
                      IN  <<SubSeq(s, b, k - 1)>> \o FindAll(s, k + 1)

\* mutant: only a function definition makes a block look like code
LooksLikeCodeDefOnly(block) == ContainsKw(block, "def")

LooksLikeCode(block) == ContainsKw(block, "def") \/ ContainsKw(block, "import")

\* mutant: the keyword is looked for at the start of the line as it stands
StartsCodeUnstripped(line) ==
    \/ StartsWithKw(line, "import")
    \/ StartsWithKw(line, "from")
    \/ StartsWithKw(line, "def")

StartsCode(line) ==
    LET stripped == Strip(line)
    IN  \/ StartsWithKw(stripped, "import")
        \/ StartsWithKw(stripped, "from")
        \/ StartsWithKw(stripped, "def")

(***************************************************************************)
(* BenchmarkOrchestrator._clean_code_submission                            *)
(***************************************************************************)
clean_code_submission(s0) ==
    LET s == Strip(s0)
        code_blocks == FindAll(s, 1)
        good == {n \in 1..Len(code_blocks) : LooksLikeCode(code_blocks[n])}
        lines == Split(s)
        first == {n \in 1..Len(lines) : StartsCode(lines[n])}
        cleaned_lines == IF first = {} THEN <<>>
                         ELSE SubSeq(lines, Min(first), Len(lines))
    IN  IF Len(code_blocks) > 0
        THEN IF good # {} THEN Strip(code_blocks[Min(good)])
             ELSE Strip(code_blocks[1])
        ELSE IF Len(cleaned_lines) > 0 THEN Strip(Join(cleaned_lines))
        ELSE Strip(s)

(***************************************************************************)
(* Extractor study: the extractor applied to a text, and again to its own  *)
(* output.                                                                 *)
(***************************************************************************)
Alphabet == {"FENCE", "python", "NL", "import ", "def ", "x"}

Texts == UNION {[1..n -> Alphabet] : n \in 0..MaxLen}

\* the variables of the studies that a specification does not use
IdleLoop ==
    /\ messenger = None
    /\ tasks = <<>>
    /\ idx = 0
    /\ reply = None
    /\ submission = None
    /\ task_results = <<>>
    /\ result = <<>>
    /\ raised = None
    /\ events = <<>>

IdleExtract ==
    /\ text = None
    /\ cleaned = None
    /\ recleaned = None

IdleScorer ==
    /\ test_results = None
    /\ eval_result = None
    /\ call = None

IdleLoad ==
    /\ request_config = None
    /\ all_tasks = <<>>

IdleSandbox ==
    /\ behaviour = None
    /\ tmpdir = <<>>
    /\ child = <<>>
    /\ descendant = <<>>
    /\ subprocess_run = None
    /\ outcome = None

InitExtract ==
    /\ pc = "text"
    /\ text \in Texts
    /\ cleaned = None
    /\ recleaned = None
    /\ IdleLoop
    /\ IdleScorer
    /\ IdleSandbox
    /\ IdleLoad

Clean ==
    /\ pc = "text"
    /\ cleaned' = clean_code_submission(text)
    /\ pc' = "cleaned"
    /\ UNCHANGED <<loopVars, scorerVars, sandboxVars, loadVars, text, recleaned>>

CleanAgain ==
    /\ pc = "cleaned"
    /\ recleaned' = clean_code_submission(cleaned)
    /\ pc' = "recleaned"
    /\ UNCHANGED <<loopVars, scorerVars, sandboxVars, loadVars, text, cleaned>>

NextExtract == Clean \/ CleanAgain

SpecExtract == InitExtract /\ [][NextExtract]_vars

(***************************************************************************)
(* Exact rational arithmetic for scores: <<n, d>> with d > 0, lowest terms.*)
(***************************************************************************)
RECURSIVE GCD(_, _)
GCD(a, b) == IF b = 0 THEN a ELSE GCD(b, a % b)

Abs(n) == IF n < 0 THEN -n ELSE n

Rat(n, d) ==
    LET g == GCD(Abs(n), d)
    IN  <<n \div g, d \div g>>

Zero == Rat(0, 1)

One == Rat(1, 1)

RAdd(a, b) == Rat(a[1] * b[2] + b[1] * a[2], a[2] * b[2])

RMul(a, b) == Rat(a[1] * b[1], a[2] * b[2])

RLe(a, b) == a[1] * b[2] <= b[1] * a[2]

RECURSIVE RSum(_)
RSum(scores) ==
    IF Len(scores) = 0 THEN Zero ELSE RAdd(Head(scores), RSum(Tail(scores)))

(***************************************************************************)
(* TestRunner.run_tests.  A transcript is a sequence of lines; a line is   *)
(* one of the kinds below, named by what pytest -v prints.                 *)
(*    "t PASSED"         the verbose result line of a passing test         *)
(*    "t FAILED"         the verbose result line of a failing test         *)
(*    "ERROR t"          an error line of the short summary                *)
(*    "FAILED t"         a failure line of the short summary: the word is  *)
(*                       at the start of the line, no blank before it      *)
(*    "t_ERROR PASSED"   the result line of a passing test whose name has  *)
(*                       the word ERROR in it                              *)
(*    "p PASSED PASSED"  a line on which " PASSED" occurs twice (printed   *)
(*                       text, or a parametrized test id)                  *)
(*    "x"                any line without a marker                         *)
(***************************************************************************)
LineKinds ==
    {"t PASSED", "t FAILED", "ERROR t", "FAILED t", "t_ERROR PASSED",
     "p PASSED PASSED", "x"}

\* the outputs of the runs of the evaluation loop: no test collected, all
\* tests passing, a failing test, a mixed run, a collection error
Transcripts ==
    {<<>>,
     <<"t PASSED", "t PASSED">>,
     <<"t FAILED">>,
     <<"t PASSED", "t FAILED">>,
     <<"ERROR t">>}

\* line.count(" PASSED")
PassedMarks(line) ==
    CASE line \in {"t PASSED", "t_ERROR PASSED"} -> 1
      [] line = "p PASSED PASSED" -> 2
      [] OTHER -> 0

\* line.count(" FAILED")
FailedMarks(line) == IF line = "t FAILED" THEN 1 ELSE 0

\* output.count(" PASSED"): the marker cannot span a newline
RECURSIVE CountPassed(_)
CountPassed(output) ==
    IF Len(output) = 0 THEN 0
    ELSE PassedMarks(Head(output)) + CountPassed(Tail(output))

\* output.count(" FAILED")
RECURSIVE CountFailed(_)
CountFailed(output) ==
    IF Len(output) = 0 THEN 0
    ELSE FailedMarks(Head(output)) + CountFailed(Tail(output))

\* "FAILED" in line or "ERROR" in line
IsErrorLine(line) == line \in {"t FAILED", "FAILED t", "ERROR t", "t_ERROR PASSED"}

\* mutant: only the lines of failed tests are taken
ErrorLinesFailedOnly(output) == SelectSeq(output, LAMBDA line : line = "t FAILED")

RECURSIVE ErrorLines(_)
ErrorLines(output) ==
    IF Len(output) = 0 THEN <<>>
    ELSE (IF IsErrorLine(Head(output)) THEN <<Head(output)>> ELSE <<>>)
         \o ErrorLines(Tail(output))

\* the process ran to completion with this exit status and this output
Completed(returncode, output) ==
    LET passed == returncode = 0
    IN  [passed |-> passed,
         num_passed |-> CountPassed(output),
         num_failed |-> CountFailed(output),
         errors |-> IF ~passed THEN ErrorLines(output) ELSE <<>>,
         output |-> output]

\* mutant: the timeout is reported as a run without tests and without message
TimedOutSilently ==
    [passed |-> FALSE, num_passed |-> 0, num_failed |-> 0,
     errors |-> <<>>, output |-> <<>>]

\* subprocess.TimeoutExpired
TimedOut ==
    [passed |-> FALSE, num_passed |-> 0, num_failed |-> -1,
     errors |-> <<"Test execution timed out after 60s">>, output |-> <<>>]

\* any other exception of subprocess.run
LaunchFailed ==
    [passed |-> FALSE, num_passed |-> 0, num_failed |-> -1,
     errors |-> <<"Test execution error: FileNotFoundError">>, output |-> <<>>]

(***************************************************************************)
(* CodeGenerationEvaluator.evaluate, from "Calculate scores" on.           *)
(***************************************************************************)
PassRate(num_passed, num_failed) ==
    IF num_passed + num_failed > 0
    THEN Rat(num_passed, num_passed + num_failed)
    ELSE Zero

\* mutant: the proportional credit is given also when every test passed
CorrectnessScoreProportional(tests_passed, pass_rate) == pass_rate

CorrectnessScore(tests_passed, pass_rate) ==
    IF tests_passed THEN One ELSE pass_rate

\* mutant: no quality credit unless the run passed
QualityScoreNoCredit(tests_passed) == IF tests_passed THEN One ELSE Zero

QualityScore(tests_passed) == IF tests_passed THEN One ELSE Rat(1, 2)

\* mutant: weights that do not add up to 1
FinalScoreOverweight(pass_rate, correctness_score, quality_score) ==
    RAdd(RAdd(RMul(Rat(50, 100), pass_rate),
              RMul(Rat(30, 100), correctness_score)),
         RMul(Rat(30, 100), quality_score))

FinalScore(pass_rate, correctness_score, quality_score) ==
    RAdd(RAdd(RMul(Rat(50, 100), pass_rate),
              RMul(Rat(30, 100), correctness_score)),
         RMul(Rat(20, 100), quality_score))

ScoreResults(tr) ==
    LET pass_rate == PassRate(tr.num_passed, tr.num_failed)
        correctness_score == CorrectnessScore(tr.passed, pass_rate)
        quality_score == QualityScore(tr.passed)
    IN  [score |-> FinalScore(pass_rate, correctness_score, quality_score),
         passed |-> tr.passed,
         details |-> [tests_passed |-> tr.num_passed,
                      tests_failed |-> tr.num_failed,
                      test_pass_rate |-> pass_rate,
                      errors |-> tr.errors,
                      test_output |-> tr.output]]

(***************************************************************************)
(* Scorer study: the scoring part of evaluate applied to the counts and    *)
(* the pass flag of a completed run.                                       *)
(***************************************************************************)
InitScorer ==
    /\ pc = "run_tests"
    /\ test_results \in
           [passed : BOOLEAN, num_passed : 0..MaxCount, num_failed : 0..MaxCount,
            errors : {<<>>}, output : {<<>>}]
    /\ eval_result = None
    /\ call = None
    /\ IdleLoop
    /\ IdleExtract
    /\ IdleSandbox
    /\ IdleLoad

CalculateScores ==
    /\ pc = "run_tests"
    /\ eval_result' = ScoreResults(test_results)
    /\ pc' = "scored"
    /\ UNCHANGED <<loopVars, extractVars, sandboxVars, loadVars, test_results,
                   call>>

NextScorer == CalculateScores

SpecScorer == InitScorer /\ [][NextScorer]_vars

(***************************************************************************)
(* What the sandboxed process can do in one run_tests call: complete with  *)
(* an exit status and an output, exceed the timeout, fail to launch, or    *)
(* (before the process is started) fail while the files are written.       *)
(***************************************************************************)
Behaviour(kind, returncode, output) ==
    [kind |-> kind, returncode |-> returncode, output |-> output]

ProcessBehaviours ==
    {Behaviour("completed", rc, out) : rc \in {0, 1}, out \in Transcripts}
        \cup {Behaviour("timeout", 1, <<>>),
              Behaviour("launch_failed", 1, <<>>),
              Behaviour("write_failed", 1, <<>>)}

\* the dictionary run_tests returns (it raises when kind is "write_failed")
run_tests(proc) ==
    CASE proc.kind = "completed" -> Completed(proc.returncode, proc.output)
      [] proc.kind = "timeout" -> TimedOut
      [] proc.kind = "launch_failed" -> LaunchFailed

(***************************************************************************)
(* CodeGenerationEvaluator.evaluate.  A submission that is the single      *)
(* token "path.py" is a string ending in ".py"; whether it names an        *)
(* existing file, and whether that file can be read, is the environment's  *)
(* choice (file).                                                          *)
(***************************************************************************)
FileStates == {"missing", "readable", "unreadable"}

FileContent == <<"def ", "x">>

IsPyPath(sub) == sub = <<"path.py">>

\* mutant: the path string itself is handed to run_tests
ExecutedCodeIsSubmission(sub, file) == sub

\* the code handed to run_tests
ExecutedCode(sub, file) ==
    IF IsPyPath(sub) /\ file = "readable" THEN FileContent ELSE sub

ReadFailure ==
    [score |-> Zero,
     passed |-> FALSE,
     details |-> [tests_passed |-> 0,
                  tests_failed |-> 0,
                  test_pass_rate |-> Zero,
                  errors |-> <<"Failed to read code file: OSError">>,
                  test_output |-> <<"File read error: OSError">>]]

\* what happens to the debug files of a call: every write succeeds, or the
\* first failure is at the directory, at the generated code, at the test code
\* or at the test output
DebugSinks ==
    {"ok", "mkdir_failed", "write_generated_failed", "write_test_failed",
     "write_results_failed"}

\* "Save debug artifacts": task_id is assigned after debug_dir.mkdir, inside
\* the try, so it is unbound when mkdir raised; the exception is logged
TaskIdBound(debug) == debug # "mkdir_failed"

\* the statements inside the try of "Save debug artifacts": the exception
\* they raise, or "ok"
SaveDebugArtifacts(debug) ==
    IF debug \in {"mkdir_failed", "write_generated_failed", "write_test_failed"}
    THEN "OSError"
    ELSE "ok"

\* the statement inside the try of "Save test output": the exception it
\* raises, or "ok"
SaveTestOutput(debug) ==
    IF ~TaskIdBound(debug) THEN "UnboundLocalError"
    ELSE IF debug = "write_results_failed" THEN "OSError"
    ELSE "ok"

\* mutant: only a failed write is passed over
SwallowedIfOSError(error) == error = "OSError"

\* "except Exception as e: logger.warning(...)" and "except Exception: pass"
Swallowed(error) == TRUE

\* evaluate's outcome: the dictionary it returns, or the exception it raises;
\* sandbox tells how far the run_tests call went, code is the first argument
\* of that call
evaluate(sub, file, proc, debug) ==
    IF IsPyPath(sub) /\ file = "unreadable"
    THEN [kind |-> "return", value |-> ReadFailure, sandbox |-> "not_reached",
          code |-> <<>>]
    ELSE IF SaveDebugArtifacts(debug) # "ok" /\ ~Swallowed(SaveDebugArtifacts(debug))
    THEN [kind |-> "raise", error |-> SaveDebugArtifacts(debug),
          sandbox |-> "not_reached", code |-> <<>>]
    ELSE IF proc.kind = "write_failed"
    THEN [kind |-> "raise", error |-> "OSError", sandbox |-> "raised",
          code |-> ExecutedCode(sub, file)]
    ELSE IF SaveTestOutput(debug) # "ok" /\ ~Swallowed(SaveTestOutput(debug))
    THEN [kind |-> "raise", error |-> SaveTestOutput(debug), sandbox |-> proc.kind,
          code |-> ExecutedCode(sub, file)]
    ELSE [kind |-> "return", value |-> ScoreResults(run_tests(proc)),
          sandbox |-> proc.kind, code |-> ExecutedCode(sub, file)]

(***************************************************************************)
(* BenchmarkOrchestrator.run_benchmark.  A task is its id.                 *)
(***************************************************************************)
Messengers == {"Messenger", "TextMessenger"}

ReplyTexts ==
    {<<"x", "FENCE", "python", "NL", "def ", "x", "NL", "FENCE">>,
     <<"path.py">>}

NoReply == [type |-> "none", text |-> <<>>]

\* Messenger.talk_to_agent returns (text, execution_time); a collaborator
\* that returns the text alone is the one run_benchmark's code expects
Replies(m) ==
    {[type |-> (IF m = "Messenger" THEN "tuple" ELSE "str"), text |-> t] :
        t \in ReplyTexts}

ErrorResult(task, error) ==
    [task_id |-> task,
     score |-> Zero,
     passed |-> FALSE,
     generated_code |-> <<"None">>,
     details |-> [error |-> error]]

EvaluatedResult(task, sub, eval) ==
    [task_id |-> task,
     score |-> eval.score,
     passed |-> eval.passed,
     generated_code |-> sub,
     details |-> eval.details]

Event(talk, txt, file, sandbox, proc, code) ==
    [talk |-> talk, text |-> txt, file |-> file, sandbox |-> sandbox, proc |-> proc,
     code |-> code]

NoProcess == Behaviour("none", 1, <<>>)

TasksPassed(results) == Cardinality({i \in 1..Len(results) : results[i].passed})

AverageScore(results) ==
    IF Len(results) > 0
    THEN RMul(RSum([i \in 1..Len(results) |-> results[i].score]),
              Rat(1, Len(results)))
    ELSE Zero

\* mutant: the failed count is the sum of one per failed task, the sandbox's
\* failed count taken as it is when it is negative
BenchmarkResultAddsSentinel(results) ==
    LET failed == {i \in 1..Len(results) : ~results[i].passed}
        sentinel == {i \in failed : /\ "tests_failed" \in DOMAIN results[i].details
                                    /\ results[i].details.tests_failed < 0}
    IN  [total_tasks |-> Len(results),
         tasks_passed |-> TasksPassed(results),
         tasks_failed |-> Cardinality(failed \ sentinel) - Cardinality(sentinel),
         average_score |-> AverageScore(results),
         task_results |-> results]

\* mutant: only the tasks that scored nothing are counted as failed
BenchmarkResultZeroAsFailed(results) ==
    [total_tasks |-> Len(results),
     tasks_passed |-> TasksPassed(results),
     tasks_failed |-> Cardinality({i \in 1..Len(results) : results[i].score = Zero}),
     average_score |-> AverageScore(results),
     task_results |-> results]

BenchmarkResult(results) ==
    [total_tasks |-> Len(results),
     tasks_passed |-> TasksPassed(results),
     tasks_failed |-> Len(results) - TasksPassed(results),
     average_score |-> AverageScore(results),
     task_results |-> results]

TaskSequences == {[i \in 1..n |-> i] : n \in 0..MaxTasks}

Init ==
    /\ pc = "start"
    /\ messenger \in Messengers
    /\ tasks \in TaskSequences
    /\ idx = 0
    /\ reply = NoReply
    /\ submission = <<>>
    /\ task_results = <<>>
    /\ result = <<>>
    /\ raised = None
    /\ events = <<>>
    /\ IdleExtract
    /\ IdleScorer
    /\ IdleSandbox
    /\ IdleLoad

\* mutant: the loop is entered without the emptiness check
StartRunUnchecked ==
    /\ pc = "start"
    /\ pc' = "talk"
    /\ UNCHANGED <<messenger, tasks, idx, reply, submission, task_results,
                   result, raised, events, extractVars, scorerVars,
                   sandboxVars, loadVars>>

\* "if not tasks: raise ValueError", else enter the loop
StartRun ==
    /\ pc = "start"
    /\ IF Len(tasks) = 0
       THEN /\ pc' = "raised"
            /\ raised' = "ValueError: No tasks found"
       ELSE /\ pc' = "talk"
            /\ UNCHANGED raised
    /\ UNCHANGED <<messenger, tasks, idx, reply, submission, task_results,
                   result, events, extractVars, scorerVars,
                   sandboxVars, loadVars>>

\* mutant: the except branch goes to the next task without a TaskResult
CatchErrorDropsResult(error, ev) ==
    /\ task_results' = task_results
    /\ events' = events
    /\ idx' = idx + 1
    /\ reply' = NoReply
    /\ submission' = <<>>
    /\ pc' = "talk"

\* the except branch of the loop body, and the step to the next task
CatchError(error, ev) ==
    /\ task_results' = Append(task_results, ErrorResult(tasks[idx + 1], error))
    /\ events' = Append(events, ev)
    /\ idx' = idx + 1
    /\ reply' = NoReply
    /\ submission' = <<>>
    /\ pc' = "talk"

\* await self.messenger.talk_to_agent(...): it raises, or returns its reply
talk_to_agent ==
    /\ pc = "talk"
    /\ idx < Len(tasks)
    /\ \/ /\ CatchError("HTTPStatusError",
                        Event("raised", <<>>, "missing", "not_reached", NoProcess,
                              <<>>))
          /\ UNCHANGED <<messenger, tasks, result, raised, extractVars, scorerVars,
                   sandboxVars, loadVars>>
       \/ /\ \E r \in Replies(messenger) : reply' = r
          /\ pc' = "clean"
          /\ UNCHANGED <<messenger, tasks, idx, submission, task_results, result,
                         raised, events, extractVars, scorerVars,
                   sandboxVars, loadVars>>

\* submission = self._clean_code_submission(submission): str.strip of a tuple
\* raises AttributeError
CleanSubmission ==
    /\ pc = "clean"
    /\ IF reply.type = "str"
       THEN /\ submission' = clean_code_submission(reply.text)
            /\ pc' = "evaluate"
            /\ UNCHANGED <<idx, reply, task_results, events>>
       ELSE CatchError("AttributeError: 'tuple' object has no attribute 'strip'",
                       Event("returned", reply.text, "missing", "not_reached",
                             NoProcess, <<>>))
    /\ UNCHANGED <<messenger, tasks, result, raised, extractVars, scorerVars,
                   sandboxVars, loadVars>>

\* await evaluator.evaluate(task, submission), then the TaskResult is appended
EvaluateTask ==
    /\ pc = "evaluate"
    /\ \E file \in (IF IsPyPath(submission) THEN FileStates ELSE {"missing"}),
          proc \in ProcessBehaviours, debug \in DebugSinks :
          LET out == evaluate(submission, file, proc, debug)
              ev == Event("returned", reply.text, file,
                          out.sandbox,
                          IF out.sandbox = "not_reached" THEN NoProcess ELSE proc,
                          out.code)
          IN  IF out.kind = "return"
              THEN /\ task_results' =
                          Append(task_results,
                                 EvaluatedResult(tasks[idx + 1], submission, out.value))
                   /\ events' = Append(events, ev)
                   /\ idx' = idx + 1
                   /\ reply' = NoReply
                   /\ submission' = <<>>
                   /\ pc' = "talk"
              ELSE CatchError(out.error, ev)
    /\ UNCHANGED <<messenger, tasks, result, raised, extractVars, scorerVars,
                   sandboxVars, loadVars>>

\* after the loop: compute final results and return the BenchmarkResult
FinishRun ==
    /\ pc = "talk"
    /\ idx = Len(tasks)
    /\ result' = <<BenchmarkResult(task_results)>>
    /\ pc' = "done"
    /\ UNCHANGED <<messenger, tasks, idx, reply, submission, task_results,
                   raised, events, extractVars, scorerVars,
                   sandboxVars, loadVars>>

Next == StartRun \/ talk_to_agent \/ CleanSubmission \/ EvaluateTask \/ FinishRun

Spec == Init /\ [][Next]_vars

(***************************************************************************)
(* Properties of the evaluation loop, checked under Spec.                  *)
(***************************************************************************)
Done == pc = "done"

RunResult == result[1]

SandboxFailures == {"timeout", "launch_failed", "raised"}

\* C1: a task whose submission was obtained from the messenger without error
\* (and whose submission file, if it names one, can be read) and whose sandbox
\* run does not time out, fail to launch or raise, goes through extractor,
\* sandbox, interpreter and scorer: its TaskResult carries the Scorer's score
\* and passed flag for that run, the extracted text as generated_code and the
\* details of that run, and is not the result of the error branch.
C1_ObtainedSubmissionIsScored ==
    \A i \in 1..Len(task_results) :
        LET e == events[i]
        IN  (/\ e.talk = "returned"
             /\ e.file # "unreadable"
             /\ e.sandbox \notin SandboxFailures)
            => /\ e.sandbox = "completed"
               /\ task_results[i] =
                      EvaluatedResult(tasks[i], clean_code_submission(e.text),
                                      ScoreResults(run_tests(e.proc)))

HasErrorDescription(details) ==
    IF "error" \in DOMAIN details
    THEN details.error # ""
    ELSE details.errors # <<>>

\* C2: every per-task failure (the messenger or the extractor raising, the
\* submission file being unreadable, the sandbox timing out, failing to launch
\* or raising) ends in a TaskResult with score exactly 0.0, passed = false and
\* an error description in details, and no such failure leaves run_benchmark.
C2_FailuresScoreZero ==
    /\ \A i \in 1..Len(task_results) :
          LET e == events[i]
          IN  (\/ e.talk = "raised"
               \/ e.file = "unreadable"
               \/ e.sandbox \in SandboxFailures)
              => /\ task_results[i].score = Zero
                 /\ ~task_results[i].passed
                 /\ HasErrorDescription(task_results[i].details)
    /\ Len(tasks) > 0 => raised = None

\* C3: for the RunResult returned by run_benchmark, tasks_passed + tasks_failed
\* equals total_tasks, and total_tasks is the length of task_results.
C3_PassedPlusFailedIsTotal ==
    Done => /\ RunResult.tasks_passed + RunResult.tasks_failed
                  = RunResult.total_tasks
            /\ RunResult.total_tasks = Len(RunResult.task_results)
            /\ RunResult.tasks_passed >= 0
            /\ RunResult.tasks_failed >= 0

\* C3 witness: a returned RunResult over a passed task and a timed-out task
C3_Witness ==
    /\ Done
    /\ Len(task_results) = 2
    /\ task_results[1].passed
    /\ events[2].sandbox = "timeout"

InUnitInterval(q) == RLe(Zero, q) /\ RLe(q, One)

\* C4: every TaskResult of the loop has a score in [0, 1], also for the
\* timeout and launch-failure outcomes (num_passed = 0, num_failed = -1), and
\* the average_score of every RunResult is in [0, 1].
C4_ScoresInUnitInterval ==
    /\ \A i \in 1..Len(task_results) : InUnitInterval(task_results[i].score)
    /\ Done => InUnitInterval(RunResult.average_score)

\* C4 witness: a returned RunResult with a timed-out task (sentinel -1 in its
\* details) and a task that passed every test
C4_Witness ==
    /\ Done
    /\ \E i \in 1..Len(task_results) :
          /\ events[i].sandbox = "timeout"
          /\ task_results[i].details.tests_failed = -1
    /\ \E i \in 1..Len(task_results) : task_results[i].score = One

\* C5 (as amended): when the task sequence is empty, run_benchmark raises
\* ValueError before the loop: no RunResult is returned, no TaskResult is
\* produced and no average is computed.
C5_EmptyRunRaises ==
    (Len(tasks) = 0 /\ pc # "start")
        => /\ pc = "raised"
           /\ raised = "ValueError: No tasks found"
           /\ result = <<>>
           /\ task_results = <<>>

\* C5 witness: the run over an empty task sequence has ended
C5_Witness == Len(tasks) = 0 /\ pc = "raised"

\* C5 (as claimed): when the task sequence is empty, the run ends with a
\* RunResult with total_tasks = 0, average_score = 0.0 and an empty result
\* sequence, and nothing is raised.
C5_EmptyRunReturnsResult ==
    (Len(tasks) = 0 /\ pc \in {"done", "raised"})
        => /\ Done
           /\ raised = None
           /\ RunResult.total_tasks = 0
           /\ RunResult.average_score = Zero
           /\ RunResult.task_results = <<>>

\* C6: the result sequence holds one TaskResult per processed task, the i-th
\* with the i-th task's id; a task that failed never ends the run: the run
\* raises only for an empty task sequence, and it returns only when every task
\* has its result.
C6_OneResultPerTaskInOrder ==
    /\ Len(task_results) = idx
    /\ idx <= Len(tasks)
    /\ \A i \in 1..Len(task_results) : task_results[i].task_id = tasks[i]
    /\ Done => /\ Len(task_results) = Len(tasks)
               /\ RunResult.task_results = task_results
    /\ pc = "raised" => Len(tasks) = 0
    /\ raised # None => pc = "raised"

\* C6 witness: the first task failed (the messenger raised), the second was
\* evaluated and passed, and the run returned both results
C6_Witness ==
    /\ Done
    /\ Len(task_results) = 2
    /\ events[1].talk = "raised"
    /\ "error" \in DOMAIN task_results[1].details
    /\ task_results[2].passed

(***************************************************************************)
(* Properties of the scorer, checked under SpecScorer.                     *)
(***************************************************************************)
Scored == pc = "scored"

\* C7: for passed count p >= 0, failed count f >= 0 and overall pass flag b
\* the score is 0.50*pass_rate + 0.30*correctness + 0.20*quality, that is,
\* with n = p + f: (p + n)/(2n) when b and n > 0, 1/2 when b and n = 0,
\* (8p + n)/(10n) when not b and n > 0, 1/10 when not b and n = 0;
\* (8, 2, false) gives 0.74 and (5, 0, true) gives 1.0.
C7_ScoreFormula ==
    Scored =>
        LET p == test_results.num_passed
            f == test_results.num_failed
            b == test_results.passed
            n == p + f
            score == eval_result.score
        IN  /\ eval_result.passed = b
            /\ eval_result.details.test_pass_rate
                   = (IF n > 0 THEN Rat(p, n) ELSE Zero)
            /\ (b /\ n > 0) => score = Rat(p + n, 2 * n)
            /\ (b /\ n = 0) => score = Rat(1, 2)
            /\ (~b /\ n > 0) => score = Rat(8 * p + n, 10 * n)
            /\ (~b /\ n = 0) => score = Rat(1, 10)
            /\ (p = 8 /\ f = 2 /\ ~b) => score = Rat(74, 100)
            /\ (p = 5 /\ f = 0 /\ b) => score = One

\* C7 witness: the run with 8 passed, 2 failed and overall pass false scored 0.74
C7_Witness ==
    /\ Scored
    /\ test_results.num_passed = 8
    /\ test_results.num_failed = 2
    /\ ~test_results.passed
    /\ eval_result.score = <<37, 50>>

\* C8: a run recorded as passed scores 0.5*pass_rate + 0.5, which is at least
\* 0.5; with counts 0 and 0 it scores exactly 0.5 and is reported passed.
C8_PassedScoresAtLeastHalf ==
    (Scored /\ test_results.passed) =>
        /\ eval_result.passed
        /\ eval_result.score
               = RAdd(RMul(Rat(1, 2), eval_result.details.test_pass_rate), Rat(1, 2))
        /\ RLe(Rat(1, 2), eval_result.score)
        /\ (test_results.num_passed = 0 /\ test_results.num_failed = 0)
               => /\ eval_result.score = <<1, 2>>
                  /\ eval_result.details.test_pass_rate = Zero

\* C8 witness: a passed run without any counted test scored exactly 0.5
C8_Witness ==
    /\ Scored
    /\ test_results.passed
    /\ test_results.num_passed = 0
    /\ test_results.num_failed = 0
    /\ eval_result.passed
    /\ eval_result.score = <<1, 2>>

(***************************************************************************)
(* Properties of the Code Extractor, checked under SpecExtract.            *)
(***************************************************************************)
\* C9: the extractor is idempotent: applied to its own output it returns that
\* output.
C9_ExtractorIdempotent == pc = "recleaned" => recleaned = cleaned

\* the k-th smallest element of a set of positions
RECURSIVE Nth(_, _)
Nth(S, k) == IF k = 1 THEN Min(S) ELSE Nth(S \ {Min(S)}, k - 1)

\* the text between the (2i-1)-th and the 2i-th fence of s
Between(s, i) ==
    LET fences == {k \in 1..Len(s) : s[k] = "FENCE"}
    IN  SubSeq(s, Nth(fences, 2 * i - 1) + 1, Nth(fences, 2 * i) - 1)

DropFirst(body, tokens) ==
    IF Len(body) > 0 /\ body[1] \in tokens THEN Tail(body) ELSE body

\* the stripped body of the first block that has "def " or "import " in its
\* body, or of the first block when no block has; body(i) is the body of the
\* i-th block of s
FirstCodeBlock(s, body(_)) ==
    LET blocks == 1..(Cardinality({k \in 1..Len(s) : s[k] = "FENCE"}) \div 2)
        code == {i \in blocks :
                    \E k \in 1..Len(body(i)) : body(i)[k] \in {"def ", "import "}}
    IN  Strip(body(IF code # {} THEN Min(code) ELSE 1))

HasFencedBlock(s) == Cardinality({k \in 1..Len(s) : s[k] = "FENCE"}) >= 2

\* C10 (as amended): when the input holds a fenced block, the extractor
\* returns the stripped body of the first block whose body has an import
\* statement or a function definition keyword, or of the first block when none
\* has; the tag "python" directly after the opening fence, and one newline
\* after it, are not part of the body, any other tag is.
C10_FirstCodeBlockPythonTag ==
    (pc # "text" /\ HasFencedBlock(Strip(text))) =>
        LET s == Strip(text)
            body(i) == DropFirst(DropFirst(Between(s, i), {"python"}), {"NL"})
        IN  cleaned = FirstCodeBlock(s, body)

\* C10 witness: the first block is prose, the second holds a definition, and
\* the second block's stripped body is returned
C10_Witness ==
    /\ pc = "cleaned"
    /\ text = <<"FENCE", "x", "FENCE", "FENCE", "def ", "FENCE">>
    /\ cleaned = <<"def">>

\* a language tag on the opening fence: a word directly after the fence that
\* is "python", or that ends the fence's line
TagLength(between) ==
    IF Len(between) > 0 /\ between[1] = "python" THEN 1
    ELSE IF Len(between) > 1 /\ between[1] = "x" /\ between[2] = "NL" THEN 1
    ELSE 0

\* C10 (as claimed): as above, but no language tag on the opening fence,
\* whichever it is, is part of the returned body.
C10_FirstCodeBlockAnyTag ==
    (pc # "text" /\ HasFencedBlock(Strip(text))) =>
        LET s == Strip(text)
            body(i) ==
                DropFirst(SubSeq(Between(s, i), TagLength(Between(s, i)) + 1,
                                 Len(Between(s, i))),
                          {"NL"})
        IN  cleaned = FirstCodeBlock(s, body)

(***************************************************************************)
(* Unfenced study: the extractor applied to texts of words, blanks,        *)
(* newlines and keywords with at most a lone fence, so that its line scan  *)
(* is what runs.                                                           *)
(***************************************************************************)
MaxUnfencedLen == 5    \* longest input text of the unfenced study, in tokens

UnfencedAlphabet == {"FENCE", "NL", "SP", "import ", "from ", "def ", "x"}

UnfencedTexts == UNION {[1..n -> UnfencedAlphabet] : n \in 0..MaxUnfencedLen}

InitUnfenced ==
    /\ pc = "text"
    /\ text \in UnfencedTexts
    /\ cleaned = None
    /\ recleaned = None
    /\ IdleLoop
    /\ IdleScorer
    /\ IdleSandbox
    /\ IdleLoad

SpecUnfenced == InitUnfenced /\ [][NextExtract]_vars

(***************************************************************************)
(* Properties of the line scan, checked under SpecUnfenced.                *)
(***************************************************************************)
\* the positions of s at which a line starts
LineStarts(s) == {p \in 1..Len(s) : p = 1 \/ s[p - 1] = "NL"}

\* the last position of the line that starts at p (p - 1 for an empty line)
LineEnd(s, p) ==
    LET nls == {k \in p..Len(s) : s[k] = "NL"}
    IN  IF nls = {} THEN Len(s) ELSE Min(nls) - 1

\* the line starting at p has, after its leading blanks, a keyword, a blank
\* and something that is not a blank
BeginsWithKeyword(s, p) ==
    LET words == {k \in p..LineEnd(s, p) : s[k] # "SP"}
    IN  /\ Cardinality(words) >= 2
        /\ s[Min(words)] \in {"import ", "from ", "def "}

\* C11: when the input holds no fenced block (fewer than two fences), the
\* extractor returns the input from the start of the first line whose
\* stripped form begins with "import ", "from " or "def " to the end of the
\* input, no later line dropped, stripped; when no line qualifies it returns
\* the input stripped; it returns a string for every input string.
C11_UnfencedFromFirstCodeLine ==
    pc # "text" =>
        /\ cleaned \in Seq(UnfencedAlphabet \cup Keywords)
        /\ ~HasFencedBlock(text) =>
              LET s == Strip(text)
                  code == {p \in LineStarts(s) : BeginsWithKeyword(s, p)}
              IN  IF code # {}
                  THEN cleaned = Strip(SubSeq(s, Min(code), Len(s)))
                  ELSE cleaned = s

\* C11 witness: prose, then an indented definition line, then a last line:
\* the text from the definition line on is returned, last line included
C11_Witness ==
    /\ pc = "cleaned"
    /\ text = <<"x", "NL", "SP", "def ", "x">>
    /\ cleaned = <<"def ", "x">>

(***************************************************************************)
(* Sandbox run: the run_tests calls of one run_benchmark loop, step by     *)
(* step.  The loop body awaits evaluate, which calls run_tests; run_tests  *)
(* holds a temporary directory for the length of the call (with            *)
(* tempfile.TemporaryDirectory()) and starts one process in it             *)
(* (subprocess.run with a timeout).  subprocess.run is the POSIX one: on   *)
(* expiry of the timeout it kills the process it started and waits for     *)
(* that process alone.  The submission, which runs inside that process,    *)
(* may start a process of its own (a descendant), which inherits the       *)
(* output pipes.                                                           *)
(***************************************************************************)
NoOutcome == [kind |-> "none"]

Returns(value) == [kind |-> "return", value |-> value]

Raises(error) == [kind |-> "raise", error |-> error]

\* the task of the current loop iteration
CurrentTask == idx + 1

sandboxFrame == <<messenger, reply, submission, task_results, result, raised,
                  events, tasks, extractVars, scorerVars, loadVars>>

InitSandbox ==
    /\ pc = "request"
    /\ tasks \in TaskSequences
    /\ idx = 0
    /\ messenger = None
    /\ reply = None
    /\ submission = None
    /\ task_results = <<>>
    /\ result = <<>>
    /\ raised = None
    /\ events = <<>>
    /\ behaviour = NoProcess
    /\ tmpdir = [t \in DOMAIN tasks |-> "absent"]
    /\ child = [t \in DOMAIN tasks |-> "none"]
    /\ descendant = [t \in DOMAIN tasks |-> "none"]
    /\ subprocess_run = "not_called"
    /\ outcome = NoOutcome
    /\ IdleExtract
    /\ IdleScorer
    /\ IdleLoad

\* the loop body up to the run_tests call: the submission is requested,
\* extracted and handed to evaluate; the task ends here when any of this fails
RequestSubmission ==
    /\ pc = "request"
    /\ idx < Len(tasks)
    /\ \/ /\ idx' = idx + 1
          /\ UNCHANGED <<pc, behaviour>>
       \/ /\ \E b \in ProcessBehaviours : behaviour' = b
          /\ pc' = "mkdtemp"
          /\ UNCHANGED idx
    /\ UNCHANGED <<tmpdir, child, descendant, subprocess_run, outcome, sandboxFrame>>

\* with tempfile.TemporaryDirectory() as tmpdir
EnterTmpdir ==
    /\ pc = "mkdtemp"
    /\ tmpdir' = [tmpdir EXCEPT ![CurrentTask] = "exists"]
    /\ pc' = "write"
    /\ UNCHANGED <<idx, behaviour, child, descendant, subprocess_run, outcome,
                   sandboxFrame>>

\* code_file.write_text(code); test_file.write_text(test_content): an
\* exception here is not caught by run_tests
WriteFiles ==
    /\ pc = "write"
    /\ IF behaviour.kind = "write_failed"
       THEN /\ outcome' = Raises("OSError")
            /\ pc' = "cleanup"
       ELSE /\ pc' = "launch"
            /\ UNCHANGED outcome
    /\ UNCHANGED <<idx, behaviour, tmpdir, child, descendant, subprocess_run,
                   sandboxFrame>>

\* subprocess.run starts the process; "except Exception" when it cannot
LaunchProcess ==
    /\ pc = "launch"
    /\ IF behaviour.kind = "launch_failed"
       THEN /\ subprocess_run' = "raised"
            /\ outcome' = Returns(LaunchFailed)
            /\ pc' = "cleanup"
            /\ UNCHANGED child
       ELSE /\ child' = [child EXCEPT ![CurrentTask] = "running"]
            /\ pc' = "wait"
            /\ UNCHANGED <<subprocess_run, outcome>>
    /\ UNCHANGED <<idx, behaviour, tmpdir, descendant, sandboxFrame>>

\* the submission, running in the process, starts a process of its own
SpawnDescendant ==
    /\ pc = "wait"
    /\ child[CurrentTask] = "running"
    /\ descendant[CurrentTask] = "none"
    /\ descendant' = [descendant EXCEPT ![CurrentTask] = "running"]
    /\ UNCHANGED <<pc, idx, behaviour, tmpdir, child, subprocess_run, outcome,
                   sandboxFrame>>

\* the process ends by itself, with its exit status
ChildExits ==
    /\ pc = "wait"
    /\ behaviour.kind = "completed"
    /\ child[CurrentTask] = "running"
    /\ child' = [child EXCEPT ![CurrentTask] = "exited"]
    /\ UNCHANGED <<pc, idx, behaviour, tmpdir, descendant, subprocess_run, outcome,
                   sandboxFrame>>

\* a descendant ends by itself, whenever it does
DescendantExits ==
    /\ \E t \in DOMAIN tasks :
          /\ descendant[t] = "running"
          /\ descendant' = [descendant EXCEPT ![t] = "exited"]
    /\ UNCHANGED <<pc, idx, behaviour, tmpdir, child, subprocess_run, outcome,
                   sandboxFrame>>

\* subprocess.run returns: the process has ended and the pipes are closed;
\* the output is parsed and the result dictionary built
CommunicateReturns ==
    /\ pc = "wait"
    /\ child[CurrentTask] = "exited"
    /\ descendant[CurrentTask] # "running"
    /\ subprocess_run' = "returned"
    /\ outcome' = Returns(Completed(behaviour.returncode, behaviour.output))
    /\ pc' = "cleanup"
    /\ UNCHANGED <<idx, behaviour, tmpdir, child, descendant, sandboxFrame>>

\* the timeout of subprocess.run expires: the process has not ended, or a
\* descendant still holds the pipes open
TimeoutExpires ==
    /\ pc = "wait"
    /\ \/ behaviour.kind = "timeout"
       \/ descendant[CurrentTask] = "running"
    /\ subprocess_run' = "TimeoutExpired"
    /\ pc' = "kill"
    /\ UNCHANGED <<idx, behaviour, tmpdir, child, descendant, outcome, sandboxFrame>>

\* process.kill(); process.wait() inside subprocess.run, which then raises
\* TimeoutExpired: "except subprocess.TimeoutExpired"
KillAndWait ==
    /\ pc = "kill"
    /\ child' = [child EXCEPT ![CurrentTask] =
                     IF child[CurrentTask] = "running" THEN "killed"
                     ELSE child[CurrentTask]]
    /\ outcome' = Returns(TimedOut)
    /\ pc' = "cleanup"
    /\ UNCHANGED <<idx, behaviour, tmpdir, descendant, subprocess_run, sandboxFrame>>

\* mutant: the directory is removed only when run_tests returns a dictionary
ExitTmpdirOnReturnOnly ==
    /\ pc = "cleanup"
    /\ tmpdir' = [tmpdir EXCEPT ![CurrentTask] =
                      IF outcome.kind = "return" THEN "removed" ELSE "exists"]
    /\ pc' = "returned"
    /\ UNCHANGED <<idx, behaviour, child, descendant, subprocess_run, outcome,
                   sandboxFrame>>

\* the with block is left, by return or by exception: the directory is removed
ExitTmpdir ==
    /\ pc = "cleanup"
    /\ tmpdir' = [tmpdir EXCEPT ![CurrentTask] = "removed"]
    /\ pc' = "returned"
    /\ UNCHANGED <<idx, behaviour, child, descendant, subprocess_run, outcome,
                   sandboxFrame>>

\* evaluate scores what run_tests returned (or the loop's except branch takes
\* what it raised), the TaskResult is appended, the loop goes to the next task
NextTask ==
    /\ pc = "returned"
    /\ idx' = idx + 1
    /\ behaviour' = NoProcess
    /\ subprocess_run' = "not_called"
    /\ outcome' = NoOutcome
    /\ pc' = "request"
    /\ UNCHANGED <<tmpdir, child, descendant, sandboxFrame>>

\* the loop is over
EndOfTasks ==
    /\ pc = "request"
    /\ idx = Len(tasks)
    /\ pc' = "finished"
    /\ UNCHANGED <<idx, sandboxVars, sandboxFrame>>

NextSandbox ==
    \/ RequestSubmission
    \/ EnterTmpdir
    \/ WriteFiles
    \/ LaunchProcess
    \/ SpawnDescendant
    \/ ChildExits
    \/ DescendantExits
    \/ CommunicateReturns
    \/ TimeoutExpires
    \/ KillAndWait
    \/ ExitTmpdir
    \/ NextTask
    \/ EndOfTasks

SpecSandbox == InitSandbox /\ [][NextSandbox]_vars

(***************************************************************************)
(* Properties of run_tests and of the sandbox, checked under SpecSandbox.  *)
(***************************************************************************)
\* run_tests has its result: the with block is being left, or has been left
RunTestsEnded == pc \in {"cleanup", "returned"}

\* C12: when subprocess.run raises TimeoutExpired, or raises any other
\* exception, run_tests returns (does not raise) a dictionary with
\* passed = false, num_failed = -1, exactly one error entry (the timeout
\* message, or the exception text) and an empty output; when subprocess.run
\* returns, passed is true exactly when the exit status is zero.
C12_TimeoutAndLaunchErrorOutcome ==
    (RunTestsEnded /\ subprocess_run # "not_called") =>
        /\ outcome.kind = "return"
        /\ subprocess_run \in {"TimeoutExpired", "raised"} =>
              /\ outcome.value.passed = FALSE
              /\ outcome.value.num_failed = -1
              /\ Len(outcome.value.errors) = 1
              /\ outcome.value.output = <<>>
        /\ subprocess_run = "TimeoutExpired" =>
              outcome.value.errors = <<"Test execution timed out after 60s">>
        /\ subprocess_run = "raised" =>
              outcome.value.errors = <<"Test execution error: FileNotFoundError">>
        /\ subprocess_run = "returned" =>
              (outcome.value.passed <=> behaviour.returncode = 0)

\* C12 witness: a run_tests call whose process exceeded the timeout has
\* returned the sentinel dictionary
C12_Witness ==
    /\ pc = "returned"
    /\ behaviour.kind = "timeout"
    /\ subprocess_run = "TimeoutExpired"
    /\ outcome.kind = "return"
    /\ outcome.value.num_failed = -1

\* C13: when a run_tests call on a submission that never terminates ends by
\* the expiry of the timeout, the process it started and every descendant of
\* that process have been terminated.
C13_TimeoutTerminatesDescendants ==
    (RunTestsEnded /\ behaviour.kind = "timeout"
                   /\ subprocess_run = "TimeoutExpired") =>
        /\ child[CurrentTask] # "running"
        /\ descendant[CurrentTask] # "running"

\* C14: a run_tests call creates a fresh temporary directory, which exists
\* only during that call and is removed on every way out of it (return after
\* completion, timeout or launch error, exception while writing the files);
\* the calls of a run are sequential: when a submission is requested no
\* directory of an earlier task exists and no sandbox process runs, and at
\* most one directory and one sandbox process exist at any time.
C14_TemporaryDirectoryScoped ==
    /\ \A t \in DOMAIN tasks :
          /\ tmpdir[t] = "exists" =>
                /\ t = CurrentTask
                /\ pc \in {"write", "launch", "wait", "kill", "cleanup"}
          /\ child[t] = "running" =>
                /\ t = CurrentTask
                /\ pc \in {"wait", "kill"}
                /\ tmpdir[t] = "exists"
          /\ t > CurrentTask => tmpdir[t] = "absent"
    /\ pc = "mkdtemp" => tmpdir[CurrentTask] = "absent"
    /\ pc = "returned" => tmpdir[CurrentTask] = "removed"
    /\ Cardinality({t \in DOMAIN tasks : tmpdir[t] = "exists"}) <= 1
    /\ Cardinality({t \in DOMAIN tasks : child[t] = "running"}) <= 1

\* C14 witness: the first task's call was left by the exception of a failed
\* write and its directory is removed; the second task's directory exists
C14_Witness ==
    /\ Len(tasks) >= 2
    /\ idx = 1
    /\ tmpdir[1] = "removed"
    /\ child[1] = "none"
    /\ tmpdir[2] = "exists"
    /\ child[2] = "running"

(***************************************************************************)
(* Transcript study: the end of a run_tests call whose process has ended,  *)
(* for every exit status and every transcript of up to MaxLines lines.     *)
(***************************************************************************)
MaxLines == 3      \* longest transcript of the transcript study, in lines

TranscriptsUpTo(n) == UNION {[1..k -> LineKinds] : k \in 0..n}

InitTranscript ==
    /\ pc = "wait"
    /\ tasks = <<1>>
    /\ idx = 0
    /\ messenger = None
    /\ reply = None
    /\ submission = None
    /\ task_results = <<>>
    /\ result = <<>>
    /\ raised = None
    /\ events = <<>>
    /\ behaviour \in {Behaviour("completed", rc, out) :
                          rc \in {0, 1}, out \in TranscriptsUpTo(MaxLines)}
    /\ tmpdir = <<"exists">>
    /\ child = <<"exited">>
    /\ descendant = <<"none">>
    /\ subprocess_run = "not_called"
    /\ outcome = NoOutcome
    /\ IdleExtract
    /\ IdleScorer
    /\ IdleLoad

NextTranscript == CommunicateReturns \/ ExitTmpdir

SpecTranscript == InitTranscript /\ [][NextTranscript]_vars

(***************************************************************************)
(* Properties of the parsed transcript, checked under SpecTranscript.      *)
(***************************************************************************)
HasFailedWord(line) == line \in {"t FAILED", "FAILED t"}

HasErrorWord(line) == line \in {"ERROR t", "t_ERROR PASSED"}

\* the lines of a transcript that contain "FAILED" or "ERROR", in order
MarkedLines(output) ==
    SelectSeq(output, LAMBDA line : HasFailedWord(line) \/ HasErrorWord(line))

ProcessCompleted == RunTestsEnded /\ subprocess_run = "returned"

\* C15 (as amended): for a completed sandbox run whose pass flag is false the
\* error list is exactly the transcript lines that contain "FAILED" or
\* "ERROR", verbatim and in transcript order; for a completed run whose pass
\* flag is true the error list is empty, whatever the transcript holds.
C15_ErrorLinesOfFailedRun ==
    ProcessCompleted =>
        outcome.value.errors =
            IF outcome.value.passed THEN <<>>
            ELSE MarkedLines(behaviour.output)

\* C15 witness: a failed run whose transcript has a passing line, the result
\* line of a failing test and its summary line
C15_Witness ==
    /\ ProcessCompleted
    /\ behaviour.returncode = 1
    /\ behaviour.output = <<"t PASSED", "t FAILED", "FAILED t">>
    /\ outcome.value.errors = <<"t FAILED", "FAILED t">>

\* C15 (as claimed): for every completed sandbox run, whether its pass flag is
\* true or false, the error list is exactly the transcript lines that contain
\* "FAILED" or "ERROR", verbatim and in transcript order.
C15_ErrorLinesOfEveryRun ==
    ProcessCompleted => outcome.value.errors = MarkedLines(behaviour.output)

\* the number of lines of a transcript on which a marker occurs
LinesWith(output, marks(_)) ==
    Cardinality({i \in 1..Len(output) : marks(output[i]) > 0})

\* C16: for every completed sandbox run num_passed is the number of
\* transcript lines with the marker " PASSED" and num_failed the number of
\* transcript lines with the marker " FAILED", a line counted at most once
\* for a marker; a transcript without marker gives 0 and 0.
C16_CountsAreMarkedLines ==
    ProcessCompleted =>
        /\ outcome.value.num_passed = LinesWith(behaviour.output, PassedMarks)
        /\ outcome.value.num_failed = LinesWith(behaviour.output, FailedMarks)

(***************************************************************************)
(* Properties of the submission file and of the aggregation, checked       *)
(* under Spec.                                                             *)
(***************************************************************************)
\* C17: when the submission handed to evaluate is the path of an existing
\* file ending in ".py" and the file can be read, run_tests is called with the
\* file's contents, not with the path; when reading the file fails, evaluate
\* returns score 0.0, passed = false and an error entry, run_tests is not
\* called for that task, and the run goes on to the next task.
C17_SubmissionFileIsRead ==
    /\ \A i \in 1..Len(task_results) :
          LET e == events[i]
          IN  /\ e.file = "readable" =>
                    /\ e.sandbox # "not_reached"
                    /\ e.code = FileContent
                    /\ e.code # clean_code_submission(e.text)
              /\ e.file = "unreadable" =>
                    /\ e.sandbox = "not_reached"
                    /\ e.proc = NoProcess
                    /\ task_results[i].score = Zero
                    /\ ~task_results[i].passed
                    /\ Len(task_results[i].details.errors) = 1
                    /\ task_results[i].task_id = tasks[i]
    /\ Len(task_results) = idx
    /\ (idx > 0 /\ events[idx].file = "unreadable") =>
          /\ raised = None
          /\ pc \in {"talk", "clean", "evaluate", "done"}
          /\ pc = "done" => Len(task_results) = Len(tasks)

\* C17 witness: the first task's file could not be read, the run went on, the
\* second task's file was read and its contents ran to completion
C17_Witness ==
    /\ Done
    /\ Len(task_results) = 2
    /\ events[1].file = "unreadable"
    /\ task_results[1].score = Zero
    /\ events[2].file = "readable"
    /\ events[2].text = <<"path.py">>
    /\ events[2].code = FileContent
    /\ events[2].sandbox = "completed"

(***************************************************************************)
(* Evaluate study: one call of CodeGenerationEvaluator.evaluate, for every *)
(* submission, state of the submission file, behaviour of the sandboxed    *)
(* process and fate of the debug files.                                    *)
(***************************************************************************)
Submissions == {<<"def ", "x">>, <<"path.py">>}

InitEvaluate ==
    /\ pc = "evaluate_call"
    /\ call \in [submission : Submissions, file : FileStates,
                 proc : ProcessBehaviours, debug : DebugSinks]
    /\ test_results = None
    /\ eval_result = None
    /\ IdleLoop
    /\ IdleExtract
    /\ IdleSandbox
    /\ IdleLoad

Evaluate ==
    /\ pc = "evaluate_call"
    /\ eval_result' = evaluate(call.submission, call.file, call.proc, call.debug)
    /\ pc' = "evaluated"
    /\ UNCHANGED <<loopVars, extractVars, sandboxVars, loadVars, test_results,
                   call>>

NextEvaluate == Evaluate

SpecEvaluate == InitEvaluate /\ [][NextEvaluate]_vars

(***************************************************************************)
(* Properties of the debug files, checked under SpecEvaluate.              *)
(***************************************************************************)
\* C18: whatever fails while the debug files are written (making the
\* directory, writing the generated code, the test code or the test output),
\* evaluate goes as far with the sandbox and returns (or raises) exactly what
\* it does when every debug write succeeds: the same score, passed flag and
\* details.
C18_DebugFailuresSwallowed ==
    pc = "evaluated" =>
        eval_result = evaluate(call.submission, call.file, call.proc, "ok")

\* C18 witness: the debug directory could not be made, the sandbox ran and
\* the full score was returned
C18_Witness ==
    /\ pc = "evaluated"
    /\ call.debug = "mkdir_failed"
    /\ eval_result.kind = "return"
    /\ eval_result.sandbox = "completed"
    /\ eval_result.value.score = One

\* C19: the sandbox's failed count -1 does not reach the aggregation: in
\* every RunResult tasks_passed and tasks_failed are between 0 and
\* total_tasks and tasks_failed is the number of TaskResults whose passed flag
\* is false; in a TaskResult only details.tests_failed can be -1, and then
\* test_pass_rate is 0.0.
C19_SentinelStaysInDetails ==
    /\ Done =>
          /\ RunResult.tasks_passed \in 0..RunResult.total_tasks
          /\ RunResult.tasks_failed \in 0..RunResult.total_tasks
          /\ RunResult.tasks_failed =
                 Cardinality({i \in 1..Len(RunResult.task_results) :
                                  ~RunResult.task_results[i].passed})
          /\ RLe(Zero, RunResult.average_score)
    /\ \A i \in 1..Len(task_results) :
          LET r == task_results[i]
          IN  /\ RLe(Zero, r.score)
              /\ "tests_failed" \in DOMAIN r.details =>
                    /\ r.details.tests_passed >= 0
                    /\ r.details.tests_failed >= -1
                    /\ RLe(Zero, r.details.test_pass_rate)
                    /\ r.details.tests_failed = -1 =>
                          /\ r.details.test_pass_rate = Zero
                          /\ events[i].sandbox \in {"timeout", "launch_failed"}

\* C19 witness: a returned RunResult over two tasks that both ended with the
\* sentinel, counted as two failed tasks
C19_Witness ==
    /\ Done
    /\ Len(task_results) = 2
    /\ \A i \in 1..2 :
          /\ events[i].sandbox = "timeout"
          /\ task_results[i].details.tests_failed = -1
    /\ RunResult.tasks_failed = 2
    /\ RunResult.tasks_passed = 0

(***************************************************************************)
(* Task loading: the "Load tasks" part of run_benchmark.  A task of the    *)
(* source is its id (its place in loader order), its difficulty and        *)
(* whether all its required libraries are in the standard library.         *)
(***************************************************************************)
MaxAvailable == 3   \* largest number of tasks the selected source holds
MaxNumTasks == 2    \* largest num_tasks of a request

Difficulties == {"easy", "hard"}

TaskKinds == [difficulty : Difficulties, stdlib : BOOLEAN]

SourceTasks ==
    UNION {{[i \in 1..n |-> [id |-> i, difficulty |-> k[i].difficulty,
                              stdlib |-> k[i].stdlib]] :
               k \in [1..n -> TaskKinds]} : n \in 0..MaxAvailable}

RequestConfigs ==
    [source : {"bigcodebench", "local"},
     num_tasks : 0..MaxNumTasks,
     difficulty : {None} \cup Difficulties,
     stdlib_only : BOOLEAN]

\* filter_stdlib_tasks
filter_stdlib_tasks(ts) == SelectSeq(ts, LAMBDA t : t.stdlib)

\* [t for t in tasks if t["difficulty"] == difficulty]
OfDifficulty(ts, difficulty) == SelectSeq(ts, LAMBDA t : t.difficulty = difficulty)

\* tasks[:num_tasks], num_tasks >= 0
Slice(ts, n) == SubSeq(ts, 1, IF n < Len(ts) THEN n ELSE Len(ts))

\* the bigcodebench branch
LoadBigCodeBench(all, config) ==
    LET stdlib == IF config.stdlib_only THEN filter_stdlib_tasks(all) ELSE all
        wanted == IF config.difficulty # None
                  THEN OfDifficulty(stdlib, config.difficulty)
                  ELSE stdlib
    IN  Slice(wanted, config.num_tasks)

\* "if limit and len(tasks) >= limit": a limit of 0 is no limit
LimitReached(loaded, limit) == limit # 0 /\ Len(loaded) >= limit

\* TaskLoader.load_tasks_by_category: the loop over the sorted task files
RECURSIVE load_tasks_by_category(_, _, _, _)
load_tasks_by_category(files, difficulty, limit, loaded) ==
    IF Len(files) = 0 THEN loaded
    ELSE IF difficulty # None /\ Head(files).difficulty # difficulty
    THEN load_tasks_by_category(Tail(files), difficulty, limit, loaded)
    ELSE IF LimitReached(Append(loaded, Head(files)), limit)
    THEN Append(loaded, Head(files))
    ELSE load_tasks_by_category(Tail(files), difficulty, limit,
                                Append(loaded, Head(files)))

InitLoad ==
    /\ pc = "load"
    /\ request_config \in RequestConfigs
    /\ all_tasks \in SourceTasks
    /\ messenger = "Messenger"
    /\ tasks = <<>>
    /\ idx = 0
    /\ reply = NoReply
    /\ submission = <<>>
    /\ task_results = <<>>
    /\ result = <<>>
    /\ raised = None
    /\ events = <<>>
    /\ IdleExtract
    /\ IdleScorer
    /\ IdleSandbox

\* "Load tasks"
LoadTasks ==
    /\ pc = "load"
    /\ tasks' = IF request_config.source = "bigcodebench"
                THEN LoadBigCodeBench(all_tasks, request_config)
                ELSE load_tasks_by_category(all_tasks, request_config.difficulty,
                                            request_config.num_tasks, <<>>)
    /\ pc' = "start"
    /\ UNCHANGED <<messenger, idx, reply, submission, task_results, result, raised,
                   events, extractVars, scorerVars, sandboxVars, loadVars>>

NextLoad == LoadTasks \/ StartRun

SpecLoad == InitLoad /\ [][NextLoad]_vars

(***************************************************************************)
(* Properties of task loading, checked under SpecLoad.                     *)
(***************************************************************************)
\* the tasks of the source that pass the difficulty filter, and the stdlib
\* filter when it is enabled, in loader order
Eligible ==
    SelectSeq(all_tasks,
              LAMBDA t : /\ request_config.difficulty # None
                              => t.difficulty = request_config.difficulty
                         /\ request_config.stdlib_only => t.stdlib)

\* C20: for every request configuration and either task source, the tasks
\* the loop is entered with are at most num_tasks many, and they are a
\* prefix, in loader order, of the tasks that pass the difficulty filter (and
\* the stdlib filter when it is enabled).
C20_AtMostNumTasksPrefix ==
    pc = "talk" =>
        /\ Len(tasks) <= request_config.num_tasks
        /\ Len(tasks) <= Len(Eligible)
        /\ tasks = SubSeq(Eligible, 1, Len(tasks))

=============================================================================
